---- MODULE Spec2Model ----
(***************************************************************************)
(* Model of the dynamic database handler (dynamic_db_handler.py): the      *)
(* storage directory of SQLite files, the category catalog, discovery and  *)
(* its cache (discovered_databases), and the lifecycle operations create,  *)
(* upload, delete, bulk backup and user migration.                         *)
(*                                                                         *)
(* File names are sequences of tokens ("a", "_", "year", ".db", ...) so    *)
(* that the naming conventions of add_new_database, secure_filename and    *)
(* the glob patterns of the catalog are computed, not looked up.           *)
(***************************************************************************)
EXTENDS Integers, Sequences, FiniteSets, TLC

VARIABLES
    fs,            \* the filesystem: location <<dir, name>> -> file content
    discovered,    \* the handler's attribute discovered_databases (may be unset)
    deleted,       \* <storage>/deleted_backups/<ts>/<name> -> content
    backups,       \* backups/<ts>/<category>/<name> -> content
    now,           \* the wall clock, in seconds (the resolution of the backup directory names)
    inflight,      \* a delete request between its copy2 and its os.remove
    result,        \* what the last operation returned or flashed
    quote,         \* a table or column name on its way through safe_table_name
    requests       \* two requests served by two threads at the same time

vars == <<fs, discovered, deleted, backups, now, inflight, result, quote, requests>>

-----------------------------------------------------------------------------
(* Bounds of the model.                                                    *)

MaxFiles == 2      \* files in the storage directory before a create or upload
MaxKept == 1       \* backup copies kept under deleted_backups, and bulk backup directories
MaxUsers == 3      \* rows of the centralized users table before a migration

-----------------------------------------------------------------------------
(* Generic helpers.                                                        *)

NULL == "<NULL>"

EmptyFn == [x \in {} |-> TRUE]

Put(f, k, v) == [x \in (DOMAIN f) \cup {k} |-> IF x = k THEN v ELSE f[x]]

Drop(f, k) == [x \in (DOMAIN f) \ {k} |-> f[x]]

Merge(f, g) == [x \in (DOMAIN f) \cup (DOMAIN g) |-> IF x \in DOMAIN g THEN g[x] ELSE f[x]]

Range(s) == {s[i] : i \in DOMAIN s}

Perms(S) == {s \in [1..Cardinality(S) -> S] : Range(s) = S}

-----------------------------------------------------------------------------
(* Paths.  A location is <<directory, file name>>; a file reference as a   *)
(* caller supplies it is a record: absolute or not, its directory part and *)
(* its base name.  A bare file name is a relative reference with no        *)
(* directory part.                                                         *)

StorageDir == "/opt/render/project/data"

OutsideDir == "/tmp/elsewhere"

NoDir == ""

NoLoc == <<NoDir, <<>>>>

InStorage(name) == <<StorageDir, name>>

ParentDir == "/opt/render/project"

BareRef(name) == [abs |-> FALSE, dir |-> NoDir, base |-> name]

\* A relative reference with a directory part, such as ../name.
RelRef(dir, name) == [abs |-> FALSE, dir |-> dir, base |-> name]

AbsRef(dir, name) == [abs |-> TRUE, dir |-> dir, base |-> name]

IsAbs(ref) == ref.abs

Basename(ref) == ref.base

\* os.path.join(persistent_path, db_file) for a relative db_file, normalised.
JoinStorage(ref) ==
    IF ref.dir = NoDir THEN <<StorageDir, ref.base>>
    ELSE IF ref.dir = ".." THEN <<ParentDir, ref.base>>
    ELSE <<ref.dir, ref.base>>

Exists(f, loc) == loc \in DOMAIN f

StorageFiles(f) == {loc \in DOMAIN f : loc[1] = StorageDir}

-----------------------------------------------------------------------------
(* File names and glob.                                                    *)

AdminUsersDb == <<"admin", "_", "users", ".db">>

DotTokens == {".", "..", ".db", ".txt"}

IsHidden(name) == name # <<>> /\ Head(name) \in DotTokens

RECURSIVE FnMatch(_, _)
FnMatch(pat, name) ==
    IF pat = <<>> THEN name = <<>>
    ELSE IF Head(pat) = "*"
         THEN FnMatch(Tail(pat), name) \/ (name # <<>> /\ FnMatch(pat, Tail(name)))
         ELSE name # <<>> /\ Head(name) = Head(pat) /\ FnMatch(Tail(pat), Tail(name))

\* glob.glob on one directory level: a pattern that does not start with a
\* dot never matches a hidden name.
GlobMatch(pat, name) == FnMatch(pat, name) /\ (IsHidden(name) => IsHidden(pat))

EndsWithDb(name) == name # <<>> /\ name[Len(name)] = ".db"

-----------------------------------------------------------------------------
(* The schema catalog (db_categories).  Python keeps the last definition   *)
(* of a method, so the schema getters in force are the later ones.         *)

Categories == {"qbank", "users", "mcq", "admin", "test"}

Pattern(cat) ==
    CASE cat = "qbank" -> <<"*", "year", "*", ".db">>
      [] cat = "users" -> AdminUsersDb
      [] cat = "mcq"   -> <<"*", "mcq", "*", ".db">>
      [] cat = "admin" -> <<"admin", "*", ".db">>
      [] cat = "test"  -> <<"*", "test", "*", ".db">>

RequiredTables(cat) ==
    CASE cat = "qbank" -> {"qbank"}
      [] cat = "users" -> {"users"}
      [] cat = "mcq"   -> {"mcq_questions"}
      [] cat = "admin" -> {"admin_actions"}
      [] cat = "test"  -> {"test_info", "test_questions"}

get_test_schema == {"test_info", "test_questions", "test_results"}

get_qbank_schema == {"qbank"}

get_centralized_user_schema ==
    {"users", "user_bookmarks", "user_notes", "user_topic_completion", "user_analytics"}

get_mcq_schema == {"mcq_questions", "mcq_tests", "mcq_results"}

get_admin_schema == {"admin_actions", "system_settings", "database_migrations"}

Schema(cat) ==
    CASE cat = "qbank" -> get_qbank_schema
      [] cat = "users" -> get_centralized_user_schema
      [] cat = "mcq"   -> get_mcq_schema
      [] cat = "admin" -> get_admin_schema
      [] cat = "test"  -> get_test_schema

-----------------------------------------------------------------------------
(* File contents.  A file is a record: whether its bytes are an SQLite     *)
(* database, its tables (name -> rows), and the DDL its users table was    *)
(* created with: "catalog" is the DDL of get_centralized_user_schema       *)
(* (username NOT NULL, email UNIQUE NOT NULL, password NOT NULL), "bare"   *)
(* is a users table with the same columns and no constraint ("narrow" and   *)
(* "patched" are defined below).  auditDDL is                              *)
(* the DDL of its admin_actions table, if it has one: "catalog" is the one *)
(* of get_admin_schema, "seeder" the one of create_admin_users_database.   *)

Database(tables, ddl) ==
    [db |-> TRUE, tables |-> tables, usersDDL |-> ddl, auditDDL |-> "catalog"]

Garbage == [db |-> FALSE, tables |-> EmptyFn, usersDDL |-> "bare", auditDDL |-> "catalog"]

HasTable(c, t) == c.db /\ t \in DOMAIN c.tables

\* What conn.execute(create_sql) for every table of the bundle leaves in a new file.
FreshDatabase(cat) == Database([t \in Schema(cat) |-> <<>>], "catalog")

UniqueEmail(ddl) == ddl # "bare"

NotNullColumns(ddl) == IF ddl # "bare" THEN {"username", "email", "password"} ELSE {}

\* The columns of a users table by its DDL.  "narrow" is the users table of an
\* older deployment, "patched" is a narrow one after ensure_schema_updates;
\* both carry the constraints of the catalog.
NarrowColumns == {"id", "username", "email", "password", "created_at"}

AddedColumns == {"last_login", "first_name", "last_name", "year_of_study", "college"}

UsersColumns(ddl) ==
    CASE ddl = "narrow"  -> NarrowColumns
      [] ddl = "patched" -> NarrowColumns \cup AddedColumns
      [] OTHER           -> NarrowColumns \cup AddedColumns \cup {"user_type", "is_active"}

UserRow(id, username, email, password) ==
    [id |-> id, username |-> username, email |-> email, password |-> password]

Emails(c) == IF HasTable(c, "users") THEN {r.email : r \in Range(c.tables["users"])} ELSE {}

-----------------------------------------------------------------------------
(* Discovery.                                                              *)

\* Mutation of discover_databases: the pattern is matched against every
\* directory, not joined to the storage path.
discover_anywhere(f) ==
    [cat \in Categories |-> {loc \in DOMAIN f : GlobMatch(Pattern(cat), loc[2])}]

\* discover_databases(): per category, the files of the storage directory
\* whose names match the category's pattern (db_info reduced to its 'file').
discover_databases(f) ==
    [cat \in Categories |-> {loc \in StorageFiles(f) : GlobMatch(Pattern(cat), loc[2])}]

Unset == [set |-> FALSE, dbs |-> [cat \in Categories |-> {}]]

Refreshed(f) == [set |-> TRUE, dbs |-> discover_databases(f)]

-----------------------------------------------------------------------------
(* safe_table_name(table_name).  A name is a sequence of characters.       *)

MaxLen == 3        \* characters of a name given to safe_table_name

\* The characters of a name, each written as a word.
DQ == "<double quote>"

SQ == "<single quote>"

BQ == "<backtick>"

LB == "<opening bracket>"

RB == "<closing bracket>"

NameChars == {DQ, SQ, BQ, LB, RB, "a"}

Names == UNION {[1..n -> NameChars] : n \in 0..MaxLen}

RECURSIVE StripLeft(_, _)
StripLeft(s, ch) == IF s # <<>> /\ Head(s) = ch THEN StripLeft(Tail(s), ch) ELSE s

RECURSIVE StripRight(_, _)
StripRight(s, ch) ==
    IF s # <<>> /\ s[Len(s)] = ch THEN StripRight(SubSeq(s, 1, Len(s) - 1), ch) ELSE s

\* str.strip(ch) for a single character: every leading and trailing ch goes.
Strip(s, ch) == StripRight(StripLeft(s, ch), ch)

\* The five strips of table_name in the order of the code: double quote,
\* single quote, backtick, opening bracket, closing bracket.
clean_name(table_name) ==
    Strip(Strip(Strip(Strip(Strip(table_name, DQ), SQ), BQ), LB), RB)

safe_table_name(table_name) == <<DQ>> \o clean_name(table_name) \o <<DQ>>

\* A name not yet quoted; given is the name the caller supplied, prev the
\* name before the last quoting, applied the number of quotings so far.
Raw(s) == [s |-> s, given |-> s, prev |-> s, applied |-> 0]

\* The name is passed through safe_table_name (again).
SafeTableName ==
    /\ quote.applied < 2
    /\ quote' = [s |-> safe_table_name(quote.s), given |-> quote.given, prev |-> quote.s,
                 applied |-> quote.applied + 1]
    /\ UNCHANGED <<fs, discovered, deleted, backups, now, inflight, result, requests>>

-----------------------------------------------------------------------------
(* Results.                                                                *)

NoTime == -1

\* What an operation returned or flashed: the operation, success, the message,
\* the file it was about, the category given, the count in the message and
\* the backup directory named in it; for a record request the table, the
\* form posted and the row's id; caught counts the exceptions the operation
\* caught and went on from; for a table listing the rows of the page, the
\* page number and the total.
Result(op, ok, msg, file, cat, count) ==
    [op |-> op, ok |-> ok, msg |-> msg, file |-> file, cat |-> cat, count |-> count,
     backup_dir |-> NoTime, table |-> "", form |-> EmptyFn, rowid |-> 0, caught |-> 0,
     data |-> <<>>, page |-> 0, total |-> 0]

InDir(r, ts) == [r EXCEPT !.backup_dir = ts]

Idle == [active |-> FALSE, path |-> NoLoc, ts |-> NoTime]

\* No request is being served by a second thread.
NoRequests == [active |-> FALSE, start |-> EmptyFn, thread |-> <<>>]

\* The handler after construction, over a storage directory with no file.
InitHandler ==
    /\ fs = [loc \in {<<OutsideDir, AdminUsersDb>>} |-> FreshDatabase("users")]
    /\ discovered = Unset
    /\ deleted = EmptyFn
    /\ backups = EmptyFn
    /\ now = 0
    /\ inflight = Idle
    /\ result = Result("init", TRUE, "", NoLoc, "", 0)
    /\ requests = NoRequests

Init == InitHandler /\ quote = Raw(<<>>)

\* The same, with any name about to be quoted.
InitQuote == InitHandler /\ quote \in {Raw(s) : s \in Names}

-----------------------------------------------------------------------------
(* add_new_database(category, db_name).                                    *)

BaseNames == {<<"a">>}

CreateCategories == Categories \cup {"bogus"}

CreateFileName(cat, db_name) ==
    CASE cat = "qbank" -> db_name \o <<"_", "year", ".db">>
      [] cat = "mcq"   -> db_name \o <<"_", "mcq", ".db">>
      [] cat = "admin" -> <<"admin", "_">> \o db_name \o <<".db">>
      [] cat = "users" -> AdminUsersDb
      [] OTHER         -> db_name \o <<".db">>

\* Mutation of target_exists: the existence check is left out.
target_exists_unchecked(f, full_path) == FALSE

\* os.path.exists(full_path), the check that guards create and upload.
target_exists(f, full_path) == Exists(f, full_path)

\* The new filesystem and cache and the returned pair, as a record.
add_new_database(f, d, cat, db_name) ==
    LET full_path == InStorage(CreateFileName(cat, db_name)) IN
    IF cat \notin Categories
    THEN [fs |-> f, discovered |-> d,
          result |-> Result("create", FALSE, "Invalid category", NoLoc, cat, 0)]
    ELSE IF target_exists(f, full_path)
    THEN [fs |-> f, discovered |-> d,
          result |-> Result("create", FALSE, "already exists", full_path, cat, 0)]
    ELSE LET f2 == Put(f, full_path, FreshDatabase(cat)) IN
         [fs |-> f2, discovered |-> Refreshed(f2),
          result |-> Result("create", TRUE, "created successfully", full_path, cat, 0)]

AddNewDatabase(cat, db_name) ==
    /\ ~inflight.active
    /\ Cardinality(StorageFiles(fs)) < MaxFiles
    /\ LET r == add_new_database(fs, discovered, cat, db_name) IN
        /\ fs' = r.fs
        /\ discovered' = r.discovered
        /\ result' = r.result
    /\ UNCHANGED <<deleted, backups, now, inflight>>
    /\ UNCHANGED <<quote, requests>>

-----------------------------------------------------------------------------
(* upload_database(uploaded_file, category).                               *)

\* werkzeug's secure_filename: path separators become word breaks, the words
\* are joined by "_", and dots and underscores are stripped from both ends.
RECURSIVE JoinWords(_, _, _)
JoinWords(s, pending, started) ==
    IF s = <<>> THEN <<>>
    ELSE IF Head(s) = "/" THEN JoinWords(Tail(s), started, started)
    ELSE (IF pending THEN <<"_">> ELSE <<>>) \o <<Head(s)>> \o JoinWords(Tail(s), FALSE, TRUE)

StripTokens == {".", "..", "_"}

RECURSIVE LStrip(_)
LStrip(s) == IF s # <<>> /\ Head(s) \in StripTokens THEN LStrip(Tail(s)) ELSE s

RECURSIVE RStrip(_)
RStrip(s) ==
    IF s # <<>> /\ s[Len(s)] \in StripTokens THEN RStrip(SubSeq(s, 1, Len(s) - 1)) ELSE s

secure_filename(raw) == RStrip(LStrip(JoinWords(raw, FALSE, FALSE)))

SrcUsers == <<UserRow(1, "u1", "e1", "pw"), UserRow(2, "u2", "e2", "pw")>>

BYearRaw == <<"..", "/", "b", "_", "year", ".db">>

QbankOnly == Database([t \in {"qbank"} |-> <<>>], "bare")

QbankWithUsers ==
    Database([t \in {"qbank", "users"} |-> IF t = "users" THEN SrcUsers ELSE <<>>], "bare")

BareUsers == Database([t \in {"users"} |-> <<>>], "bare")

TestInfoOnly == Database([t \in {"test_info"} |-> <<>>], "bare")

Upload(filename, content, cat) == [filename |-> filename, content |-> content, cat |-> cat]

\* The requests tried: one per branch of upload_database, and the accepted ones.
Uploads ==
    { Upload(<<>>, QbankOnly, "qbank"),
      Upload(<<"b", ".txt">>, QbankOnly, "qbank"),
      Upload(BYearRaw, QbankWithUsers, "users"),
      Upload(BYearRaw, QbankWithUsers, "qbank"),
      Upload(BYearRaw, Garbage, "qbank"),
      Upload(BYearRaw, TestInfoOnly, "test"),
      Upload(BYearRaw, QbankOnly, "bogus"),
      Upload(AdminUsersDb, BareUsers, "users"),
      Upload(AdminUsersDb, QbankOnly, "users") }

\* Mutation of remove_upload: the rejected file is left where it was saved.
remove_upload_forgotten(saved, full_path) == saved

\* os.remove(full_path) of the file just saved, when validation fails or raises.
remove_upload(saved, full_path) == Drop(saved, full_path)

upload_database(f, d, uploaded_file, cat) ==
    LET filename == secure_filename(uploaded_file.filename)
        full_path == InStorage(filename)
        saved == Put(f, full_path, uploaded_file.content)
        fail(msg, file) ==
            [fs |-> f, discovered |-> d, result |-> Result("upload", FALSE, msg, file, cat, 0)]
    IN
    IF uploaded_file.filename = <<>> THEN fail("No file selected", NoLoc)
    ELSE IF ~EndsWithDb(filename) THEN fail("File must have .db extension", NoLoc)
    ELSE IF cat = "users" /\ filename # AdminUsersDb
    THEN fail("User database must be named 'admin_users.db'", NoLoc)
    ELSE IF target_exists(f, full_path) THEN fail("already exists", full_path)
    \* saved; db_categories[category] raises KeyError, a non-database raises on
    \* the first query: both end in the except branch, which removes the file.
    ELSE IF cat \notin Categories \/ ~uploaded_file.content.db
    THEN [fs |-> remove_upload(saved, full_path), discovered |-> d,
          result |-> Result("upload", FALSE, "Error uploading database", full_path, cat, 0)]
    ELSE IF \E t \in RequiredTables(cat) : ~HasTable(uploaded_file.content, t)
    THEN [fs |-> remove_upload(saved, full_path), discovered |-> d,
          result |-> Result("upload", FALSE, "Database missing required table", full_path, cat, 0)]
    ELSE [fs |-> saved, discovered |-> Refreshed(saved),
          result |-> Result("upload", TRUE, "uploaded successfully", full_path, cat, 0)]

UploadDatabase(u) ==
    /\ ~inflight.active
    /\ Cardinality(StorageFiles(fs)) < MaxFiles
    /\ LET r == upload_database(fs, discovered, [filename |-> u.filename, content |-> u.content],
                                u.cat) IN
        /\ fs' = r.fs
        /\ discovered' = r.discovered
        /\ result' = r.result
    /\ UNCHANGED <<deleted, backups, now, inflight>>
    /\ UNCHANGED <<quote, requests>>

-----------------------------------------------------------------------------
(* get_connection(db_file).                                                *)

get_connection_path(ref) ==
    IF IsAbs(ref) THEN <<ref.dir, ref.base>> ELSE <<StorageDir, Basename(ref)>>

\* The references tried: every shape for the centralized user file, and the
\* bare name of every stored file.
Refs(f) ==
    {BareRef(AdminUsersDb), RelRef("..", AdminUsersDb),
     AbsRef(StorageDir, AdminUsersDb), AbsRef(OutsideDir, AdminUsersDb)}
    \cup {BareRef(loc[2]) : loc \in StorageFiles(f)}

\* The result's file is the file opened; ok is false for FileNotFoundError.
GetConnection(ref) ==
    /\ ~inflight.active
    /\ LET full_path == get_connection_path(ref) IN
        result' = Result("get_connection", Exists(fs, full_path), "", full_path, "", 0)
    /\ UNCHANGED <<fs, discovered, deleted, backups, now, inflight>>
    /\ UNCHANGED <<quote, requests>>

-----------------------------------------------------------------------------
(* delete_database(db_file): the route's steps, with the request in flight *)
(* between shutil.copy2 and os.remove.                                     *)

delete_refused(ref) == ref = BareRef(AdminUsersDb)

delete_full_path(ref) ==
    IF IsAbs(ref) THEN <<StorageDir, Basename(ref)>> ELSE JoinStorage(ref)

\* Mutation of copy2: the backup directory is made and the copy is not.
copy2_skipped(d, f, full_path, ts) == d

\* shutil.copy2(full_path, <backup_dir>/<basename>) with backup_dir named after now.
copy2(d, f, full_path, ts) == Put(d, <<ts, full_path[2]>>, f[full_path])

\* Up to and including the copy into deleted_backups/<now>/<basename>.
DeleteDatabase(ref) ==
    /\ ~inflight.active
    /\ Cardinality(DOMAIN deleted) < MaxKept
    /\ LET full_path == delete_full_path(ref) IN
        IF delete_refused(ref)
        THEN /\ result' = Result("delete", FALSE, "Cannot delete centralized user database!",
                                 NoLoc, "", 0)
             /\ UNCHANGED <<deleted, inflight>>
        ELSE IF Exists(fs, full_path)
        THEN /\ deleted' = copy2(deleted, fs, full_path, now)
             /\ inflight' = [active |-> TRUE, path |-> full_path, ts |-> now]
             /\ UNCHANGED result
        ELSE /\ result' = Result("delete", FALSE, "Database file not found", full_path, "", 0)
             /\ UNCHANGED <<deleted, inflight>>
    /\ UNCHANGED <<fs, discovered, backups, now>>
    /\ UNCHANGED <<quote, requests>>

\* os.remove, the refresh and the success message.
DeleteRemove ==
    /\ inflight.active
    /\ fs' = Drop(fs, inflight.path)
    /\ discovered' = Refreshed(fs')
    /\ result' = InDir(Result("delete", TRUE, "deleted successfully", inflight.path, "", 0),
                       inflight.ts)
    /\ inflight' = Idle
    /\ UNCHANGED <<deleted, backups, now>>
    /\ UNCHANGED <<quote, requests>>

\* os.remove raises (or the request dies): the except branch flashes the error.
DeleteRemoveFails ==
    /\ inflight.active
    /\ result' = InDir(Result("delete", FALSE, "Error deleting database", inflight.path, "", 0),
                       inflight.ts)
    /\ inflight' = Idle
    /\ UNCHANGED <<fs, discovered, deleted, backups, now>>
    /\ UNCHANGED <<quote, requests>>

-----------------------------------------------------------------------------
(* Two requests served at the same time: each of create, upload and delete *)
(* as the steps its thread takes, which interleave with the steps of the   *)
(* other thread.  The existence check, the write, the listing of the       *)
(* storage directory and the assignment to discovered_databases are        *)
(* separate steps; the listing a thread has taken is kept in its record.   *)

CreateRequest(cat, db_name) ==
    [kind |-> "create", cat |-> cat, db_name |-> db_name, file |-> Upload(<<>>, Garbage, ""),
     ref |-> BareRef(<<>>)]

UploadRequest(u) ==
    [kind |-> "upload", cat |-> u.cat, db_name |-> <<>>, file |-> u, ref |-> BareRef(<<>>)]

DeleteRequest(ref) ==
    [kind |-> "delete", cat |-> "", db_name |-> <<>>, file |-> Upload(<<>>, Garbage, ""),
     ref |-> ref]

\* The file a request is about.
TargetOf(req) ==
    CASE req.kind = "create" -> InStorage(CreateFileName(req.cat, req.db_name))
      [] req.kind = "upload" -> InStorage(secure_filename(req.file.filename))
      [] req.kind = "delete" -> delete_full_path(req.ref)

Thread(req) ==
    [req |-> req, pc |-> "check", ok |-> FALSE, listing |-> discover_databases(EmptyFn)]

Finished(t, ok) == [t EXCEPT !.pc = "done", !.ok = ok]

At(t, pc) == [t EXCEPT !.pc = pc]

\* The state a thread acts on and leaves: the filesystem, the cache, the
\* backups of deleted files, and its own record.
Shared(f, d, del, t) == [fs |-> f, discovered |-> d, deleted |-> del, thread |-> t]

\* add_new_database, step by step.
CreateStep(f, d, del, t) ==
    LET req == t.req
        full_path == TargetOf(req)
    IN
    CASE t.pc = "check" ->
            IF req.cat \notin Categories \/ target_exists(f, full_path)
            THEN Shared(f, d, del, Finished(t, FALSE))
            ELSE Shared(f, d, del, At(t, "write"))
      [] t.pc = "write" ->
            \* sqlite3.connect and the CREATE TABLE IF NOT EXISTS statements
            IF ~Exists(f, full_path)
            THEN Shared(Put(f, full_path, FreshDatabase(req.cat)), d, del, At(t, "list"))
            ELSE IF ~f[full_path].db THEN Shared(f, d, del, Finished(t, FALSE))
            ELSE Shared([f EXCEPT ![full_path].tables =
                            Merge([x \in Schema(req.cat) |-> <<>>], @)],
                        d, del, At(t, "list"))
      [] t.pc = "list" ->
            Shared(f, d, del, [At(t, "assign") EXCEPT !.listing = discover_databases(f)])
      [] t.pc = "assign" ->
            Shared(f, [set |-> TRUE, dbs |-> t.listing], del, Finished(t, TRUE))

\* upload_database, step by step.  The validation reads the file that is at
\* full_path when it runs; sqlite3.connect makes an empty file when there
\* is none.
UploadStep(f, d, del, t) ==
    LET req == t.req
        filename == secure_filename(req.file.filename)
        full_path == InStorage(filename)
    IN
    CASE t.pc = "check" ->
            IF \/ req.file.filename = <<>>
               \/ ~EndsWithDb(filename)
               \/ req.cat = "users" /\ filename # AdminUsersDb
               \/ target_exists(f, full_path)
            THEN Shared(f, d, del, Finished(t, FALSE))
            ELSE Shared(f, d, del, At(t, "write"))
      [] t.pc = "write" ->
            Shared(Put(f, full_path, req.file.content), d, del, At(t, "validate"))
      [] t.pc = "validate" ->
            LET found == IF Exists(f, full_path) THEN f[full_path]
                         ELSE Database(EmptyFn, "bare")
            IN IF \/ req.cat \notin Categories
                  \/ ~found.db
                  \/ \E tab \in RequiredTables(req.cat) : ~HasTable(found, tab)
               THEN Shared(remove_upload(f, full_path), d, del, Finished(t, FALSE))
               ELSE Shared(f, d, del, At(t, "list"))
      [] t.pc = "list" ->
            Shared(f, d, del, [At(t, "assign") EXCEPT !.listing = discover_databases(f)])
      [] t.pc = "assign" ->
            Shared(f, [set |-> TRUE, dbs |-> t.listing], del, Finished(t, TRUE))

\* The delete route, step by step; ts is the second the backup directory is
\* named after.
DeleteStep(f, d, del, t, ts) ==
    LET req == t.req
        full_path == delete_full_path(req.ref)
    IN
    CASE t.pc = "check" ->
            IF delete_refused(req.ref) \/ ~Exists(f, full_path)
            THEN Shared(f, d, del, Finished(t, FALSE))
            ELSE Shared(f, d, copy2(del, f, full_path, ts), At(t, "write"))
      [] t.pc = "write" ->
            \* os.remove raises when the file is gone
            IF ~Exists(f, full_path) THEN Shared(f, d, del, Finished(t, FALSE))
            ELSE Shared(Drop(f, full_path), d, del, At(t, "list"))
      [] t.pc = "list" ->
            Shared(f, d, del, [At(t, "assign") EXCEPT !.listing = discover_databases(f)])
      [] t.pc = "assign" ->
            Shared(f, [set |-> TRUE, dbs |-> t.listing], del, Finished(t, TRUE))

\* The delete route served alone, as it leaves the storage and the cache.
delete_database(f, d, ref) ==
    LET full_path == delete_full_path(ref) IN
    IF delete_refused(ref) \/ ~Exists(f, full_path)
    THEN [fs |-> f, discovered |-> d]
    ELSE [fs |-> Drop(f, full_path), discovered |-> Refreshed(Drop(f, full_path))]

\* A request served alone, from the storage and cache in s.
ServedAlone(req, s) ==
    LET r == CASE req.kind = "create" ->
                     add_new_database(s.fs, s.discovered, req.cat, req.db_name)
               [] req.kind = "upload" ->
                     upload_database(s.fs, s.discovered,
                                     [filename |-> req.file.filename,
                                      content |-> req.file.content], req.cat)
               [] req.kind = "delete" -> delete_database(s.fs, s.discovered, req.ref)
    IN [fs |-> r.fs, discovered |-> r.discovered]

\* The requests served two at a time.
AYearRef == BareRef(CreateFileName("qbank", <<"a">>))

BYearRef == BareRef(secure_filename(BYearRaw))

ConcurrentRequests ==
    { CreateRequest("qbank", <<"a">>),
      UploadRequest(Upload(BYearRaw, QbankOnly, "qbank")),
      UploadRequest(Upload(BYearRaw, QbankWithUsers, "qbank")),
      UploadRequest(Upload(BYearRaw, Garbage, "qbank")),
      DeleteRequest(AYearRef),
      DeleteRequest(BYearRef) }

\* Two requests arrive; start keeps what they found.
BeginRequests(r1, r2) ==
    /\ ~requests.active
    /\ ~inflight.active
    /\ requests' = [active |-> TRUE,
                    start |-> [fs |-> fs, discovered |-> discovered],
                    thread |-> <<Thread(r1), Thread(r2)>>]
    /\ UNCHANGED <<fs, discovered, deleted, backups, now, inflight, result, quote>>

\* Thread i takes its next step.
RequestStep(i) ==
    /\ requests.active
    /\ requests.thread[i].pc # "done"
    /\ LET t == requests.thread[i]
           r == CASE t.req.kind = "create" -> CreateStep(fs, discovered, deleted, t)
                  [] t.req.kind = "upload" -> UploadStep(fs, discovered, deleted, t)
                  [] t.req.kind = "delete" -> DeleteStep(fs, discovered, deleted, t, now)
       IN /\ fs' = r.fs
          /\ discovered' = r.discovered
          /\ deleted' = r.deleted
          /\ requests' = [requests EXCEPT !.thread[i] = r.thread]
    /\ UNCHANGED <<backups, now, inflight, result, quote>>

\* Both responses are out.
EndRequests ==
    /\ requests.active
    /\ \A i \in DOMAIN requests.thread : requests.thread[i].pc = "done"
    /\ requests' = NoRequests
    /\ UNCHANGED <<fs, discovered, deleted, backups, now, inflight, result, quote>>

NextRequests ==
    \/ \E r1, r2 \in ConcurrentRequests : BeginRequests(r1, r2)
    \/ \E i \in {1, 2} : RequestStep(i)
    \/ EndRequests

-----------------------------------------------------------------------------
(* backup_all_databases().                                                 *)

\* os.path.join(backup_dir, category, basename) for every db_info of the cache.
BackupCopies(f, dbs, ts) ==
    [k \in UNION {{<<ts, cat, loc[2]>> : loc \in {l \in dbs[cat] : Exists(f, l)}} :
                  cat \in Categories}
        |-> f[<<StorageDir, k[3]>>]]

BackupCount(dbs) ==
    Cardinality(dbs["qbank"]) + Cardinality(dbs["users"]) + Cardinality(dbs["mcq"])
        + Cardinality(dbs["admin"]) + Cardinality(dbs["test"])

BackupDirs(b) == {k[1] : k \in DOMAIN b}

\* self.discovered_databases is read without ever being assigned by __init__:
\* the AttributeError lands in the except branch.
backup_all_databases(f, d, b, ts) ==
    IF ~d.set
    THEN [backups |-> b, result |-> Result("backup", FALSE, "Backup failed", NoLoc, "", 0)]
    ELSE IF \E cat \in Categories : \E loc \in d.dbs[cat] : ~Exists(f, loc)
    THEN [backups |-> Merge(b, BackupCopies(f, d.dbs, ts)),
          result |-> InDir(Result("backup", FALSE, "Backup failed", NoLoc, "", 0), ts)]
    ELSE [backups |-> Merge(b, BackupCopies(f, d.dbs, ts)),
          result |-> InDir(Result("backup", TRUE, "Successfully backed up", NoLoc, "",
                                  BackupCount(d.dbs)), ts)]

BackupAllDatabases ==
    /\ ~inflight.active
    /\ Cardinality(BackupDirs(backups) \cup {now}) <= MaxKept
    /\ LET r == backup_all_databases(fs, discovered, backups, now) IN
        /\ backups' = r.backups
        /\ result' = r.result
    /\ UNCHANGED <<fs, discovered, deleted, now, inflight>>
    /\ UNCHANGED <<quote, requests>>

-----------------------------------------------------------------------------
(* migrate_users_to_centralized_db().                                      *)

\* INSERT OR IGNORE INTO users (username, email, password, created_at): a
\* missing table raises, a NOT NULL or UNIQUE conflict skips the row silently.
InsertOrIgnoreUser(c, u) ==
    IF ~HasTable(c, "users") THEN [c |-> c, raised |-> TRUE]
    ELSE LET rows == c.tables["users"]
             conflict ==
                 \/ \E col \in NotNullColumns(c.usersDDL) : u[col] = NULL
                 \/ UniqueEmail(c.usersDDL) /\ u.email \in Emails(c)
         IN IF conflict THEN [c |-> c, raised |-> FALSE]
            ELSE [c |-> [c EXCEPT !.tables["users"] =
                            Append(rows, UserRow(Len(rows) + 1, u.username, u.email, u.password))],
                  raised |-> FALSE]

\* The loop over the source's users: migration_count grows after every
\* execute that did not raise; caught counts the exceptions that were printed
\* and dropped.
RECURSIVE MigrateUserRows(_, _, _, _)
MigrateUserRows(c, rows, count, caught) ==
    IF rows = <<>> THEN [c |-> c, count |-> count, caught |-> caught]
    ELSE LET r == InsertOrIgnoreUser(c, Head(rows)) IN
         MigrateUserRows(r.c, Tail(rows), IF r.raised THEN count ELSE count + 1,
                         IF r.raised THEN caught + 1 ELSE caught)

BookmarkRow(id, user_id, question_id, source_database) ==
    [id |-> id, user_id |-> user_id, question_id |-> question_id,
     source_database |-> source_database]

\* INSERT OR IGNORE INTO user_bookmarks with foreign_keys = ON: an unknown
\* user_id or a missing table raises (caught per row), a repeated
\* (user_id, question_id, source_database) is skipped.
InsertOrIgnoreBookmark(c, bm, db_file) ==
    IF ~HasTable(c, "user_bookmarks") \/ ~HasTable(c, "users") THEN [c |-> c, raised |-> TRUE]
    ELSE LET rows == c.tables["user_bookmarks"]
             known == \E u \in Range(c.tables["users"]) : u.id = bm.user_id
             repeated == \E r \in Range(rows) :
                 /\ r.user_id = bm.user_id
                 /\ r.question_id = bm.question_id
                 /\ r.source_database = db_file
         IN IF ~known THEN [c |-> c, raised |-> TRUE]
            ELSE IF repeated THEN [c |-> c, raised |-> FALSE]
            ELSE [c |-> [c EXCEPT !.tables["user_bookmarks"] =
                            Append(rows, BookmarkRow(Len(rows) + 1, bm.user_id, bm.question_id,
                                                     db_file))],
                  raised |-> FALSE]

RECURSIVE MigrateBookmarks(_, _, _, _)
MigrateBookmarks(c, rows, db_file, caught) ==
    IF rows = <<>> THEN [c |-> c, caught |-> caught]
    ELSE LET r == InsertOrIgnoreBookmark(c, Head(rows), db_file) IN
         MigrateBookmarks(r.c, Tail(rows), db_file, IF r.raised THEN caught + 1 ELSE caught)

\* One source file: get_connection raises when it is gone and table_exists
\* when it is no database (printed and dropped); a file with no users table
\* is passed over.
MigrateFile(f, c, db_file, count, caught) ==
    IF ~Exists(f, db_file) \/ ~f[db_file].db
    THEN [c |-> c, count |-> count, caught |-> caught + 1]
    ELSE IF ~HasTable(f[db_file], "users") THEN [c |-> c, count |-> count, caught |-> caught]
    ELSE LET r == MigrateUserRows(c, f[db_file].tables["users"], count, caught) IN
         IF HasTable(f[db_file], "bookmarks")
         THEN LET b == MigrateBookmarks(r.c, f[db_file].tables["bookmarks"], db_file, r.caught)
              IN [c |-> b.c, count |-> r.count, caught |-> b.caught]
         ELSE r

RECURSIVE MigrateFiles(_, _, _, _, _)
MigrateFiles(f, c, order, count, caught) ==
    IF order = <<>> THEN [c |-> c, count |-> count, caught |-> caught]
    ELSE LET r == MigrateFile(f, c, Head(order), count, caught) IN
         MigrateFiles(f, r.c, Tail(order), r.count, r.caught)

\* The files migrated from: the cached qbank list, never refreshed first.
qbank_databases(d) == d.dbs["qbank"]

\* order is the order in which glob listed the qbank files of the cache.
migrate_users_to_centralized_db(f, d, order) ==
    LET centralized_db_path == InStorage(AdminUsersDb)
        made == IF Exists(f, centralized_db_path)
                THEN [fs |-> f, discovered |-> d]
                ELSE add_new_database(f, d, "users", <<"centralized">>)
    IN
    IF ~made.discovered.set
    THEN [fs |-> made.fs, discovered |-> made.discovered,
          result |-> Result("migrate", FALSE, "Migration failed", NoLoc, "", 0)]
    ELSE LET r == MigrateFiles(made.fs, made.fs[centralized_db_path], order, 0, 0)
             f2 == [made.fs EXCEPT ![centralized_db_path] = r.c]
         IN [fs |-> f2, discovered |-> Refreshed(f2),
             result |-> [Result("migrate", TRUE, "Successfully migrated", NoLoc, "", r.count)
                            EXCEPT !.caught = r.caught]]

UsersRows(c) == IF HasTable(c, "users") THEN Len(c.tables["users"]) ELSE 0

MigrateUsers ==
    /\ ~inflight.active
    /\ Exists(fs, InStorage(AdminUsersDb)) => UsersRows(fs[InStorage(AdminUsersDb)]) < MaxUsers
    /\ \E order \in Perms(IF Exists(fs, InStorage(AdminUsersDb))
                          THEN qbank_databases(discovered)
                          ELSE qbank_databases(Refreshed(fs))) :
        LET r == migrate_users_to_centralized_db(fs, discovered, order) IN
        /\ fs' = r.fs
        /\ discovered' = r.discovered
        /\ result' = r.result
    /\ UNCHANGED <<deleted, backups, now, inflight>>
    /\ UNCHANGED <<quote, requests>>

-----------------------------------------------------------------------------
(* The record editor: add_database_record and edit_database_record.  A     *)
(* row is a record with its id and the columns of its table that the       *)
(* operations constrain or write; values are strings as a form posts them. *)

MaxRows == 3       \* rows of a table before a record is added to it or an edit is logged

Column(affinity, notnull, unique, default) ==
    [affinity |-> affinity, notnull |-> notnull, unique |-> unique, default |-> default]

CurrentTimestamp == "CURRENT_TIMESTAMP"

\* The columns next to id that the CREATE TABLE of the file declares.
Columns(c, t) ==
    CASE t = "users" ->
            [k \in {"username", "email", "password"} |->
                Column("TEXT", k \in NotNullColumns(c.usersDDL),
                       k = "email" /\ UniqueEmail(c.usersDDL), NULL)]
      [] t = "system_settings" ->
            [k \in {"setting_key", "setting_value", "description", "updated_at"} |->
                CASE k = "setting_key" -> Column("TEXT", TRUE, TRUE, NULL)
                  [] k = "updated_at"  -> Column("NUMERIC", FALSE, FALSE, CurrentTimestamp)
                  [] OTHER             -> Column("TEXT", FALSE, FALSE, NULL)]
      [] t = "admin_actions" /\ c.auditDDL = "catalog" ->
            [k \in {"admin_user_id", "action_type", "target_db", "target_table",
                    "action_details", "timestamp"} |->
                CASE k \in {"admin_user_id", "action_type"} -> Column("TEXT", TRUE, FALSE, NULL)
                  [] k = "timestamp" -> Column("NUMERIC", FALSE, FALSE, CurrentTimestamp)
                  [] OTHER           -> Column("TEXT", FALSE, FALSE, NULL)]
      [] t = "admin_actions" /\ c.auditDDL = "seeder" ->
            [k \in {"admin_user_id", "action_type", "target_table", "target_record_id",
                    "description", "created_at"} |->
                CASE k = "admin_user_id" -> Column("INTEGER", TRUE, FALSE, NULL)
                  [] k = "action_type"   -> Column("TEXT", TRUE, FALSE, NULL)
                  [] k = "target_record_id" -> Column("INTEGER", FALSE, FALSE, NULL)
                  [] k = "created_at"    -> Column("NUMERIC", FALSE, FALSE, CurrentTimestamp)
                  [] OTHER               -> Column("TEXT", FALSE, FALSE, NULL)]

\* value.strip(): the values a form posts here and what strip leaves of them.
strip(value) ==
    CASE value = " "   -> ""
      [] value = " x " -> "x"
      [] OTHER         -> value

\* SQLite's type affinity: a numeric column stores a text that is a numeric
\* literal as the number, a TEXT column stores the text.
Affinity(affinity, value) ==
    IF affinity \in {"NUMERIC", "INTEGER"} /\ value = "007" THEN "7" ELSE value

\* conn.execute(INSERT INTO t (fields) VALUES (...)): raises on a file that
\* is no database, a missing table, an unknown column, a NOT NULL or a
\* UNIQUE conflict; else the row gets the next id.
SqlInsert(c, t, fields) ==
    IF ~HasTable(c, t) \/ (\E k \in DOMAIN fields : k \notin DOMAIN Columns(c, t))
    THEN [c |-> c, raised |-> TRUE, lastrowid |-> 0]
    ELSE LET cols == Columns(c, t)
             rows == c.tables[t]
             row == [k \in DOMAIN cols \cup {"id"} |->
                        IF k = "id" THEN Len(rows) + 1
                        ELSE IF k \in DOMAIN fields THEN Affinity(cols[k].affinity, fields[k])
                        ELSE cols[k].default]
             conflict ==
                 \/ \E k \in DOMAIN cols : cols[k].notnull /\ row[k] = NULL
                 \/ \E k \in DOMAIN cols : cols[k].unique /\ row[k] # NULL
                                            /\ \E r \in Range(rows) : r[k] = row[k]
         IN IF conflict THEN [c |-> c, raised |-> TRUE, lastrowid |-> 0]
            ELSE [c |-> [c EXCEPT !.tables[t] = Append(rows, row)], raised |-> FALSE,
                  lastrowid |-> Len(rows) + 1]

\* Mutation of matching_id: the WHERE clause is lost.
matching_any(row, record_id) == TRUE

\* WHERE id = ?
matching_id(row, record_id) == row.id = record_id

\* conn.execute(UPDATE t SET fields WHERE id = record_id): raises on a
\* missing table or an unknown column, and on a UNIQUE conflict of the row it
\* changes; a record_id that no row has changes nothing.
SqlUpdate(c, t, fields, record_id) ==
    IF ~HasTable(c, t) \/ (\E k \in DOMAIN fields : k \notin DOMAIN Columns(c, t))
    THEN [c |-> c, raised |-> TRUE]
    ELSE LET cols == Columns(c, t)
             rows == c.tables[t]
             changed(r) == [k \in DOMAIN r |->
                               IF k \in DOMAIN fields
                               THEN Affinity(cols[k].affinity, fields[k]) ELSE r[k]]
             conflict ==
                 \E i \in DOMAIN rows :
                     /\ matching_id(rows[i], record_id)
                     /\ \E k \in DOMAIN fields : cols[k].unique
                            /\ \E j \in DOMAIN rows : j # i /\ rows[j][k] = changed(rows[i])[k]
         IN IF conflict THEN [c |-> c, raised |-> TRUE]
            ELSE [c |-> [c EXCEPT !.tables[t] =
                            [i \in DOMAIN rows |->
                                IF matching_id(rows[i], record_id)
                                THEN changed(rows[i]) ELSE rows[i]]],
                  raised |-> FALSE]

AdminUserId == "anonymous"

\* Mutation of LogAdminAction: the exception of the audit INSERT is not caught.
LogAdminActionUncaught(c, action_type, db_file, table_name, details) ==
    IF ~HasTable(c, "admin_actions") THEN [c |-> c, raised |-> FALSE, caught |-> 0]
    ELSE LET r == SqlInsert(c, "admin_actions",
                            [k \in {"admin_user_id", "action_type", "target_db", "target_table",
                                    "action_details"} |->
                                CASE k = "admin_user_id" -> AdminUserId
                                  [] k = "action_type"   -> action_type
                                  [] k = "target_db"     -> db_file
                                  [] k = "target_table"  -> table_name
                                  [] k = "action_details" -> details])
         IN [c |-> r.c, raised |-> r.raised, caught |-> 0]

\* The try block around the audit row: INSERT INTO admin_actions
\* (admin_user_id, action_type, target_db, target_table, action_details) when
\* the file has a table of that name; an exception is printed and dropped.
LogAdminAction(c, action_type, db_file, table_name, details) ==
    IF ~HasTable(c, "admin_actions") THEN [c |-> c, raised |-> FALSE, caught |-> 0]
    ELSE LET r == SqlInsert(c, "admin_actions",
                            [k \in {"admin_user_id", "action_type", "target_db", "target_table",
                                    "action_details"} |->
                                CASE k = "admin_user_id" -> AdminUserId
                                  [] k = "action_type"   -> action_type
                                  [] k = "target_db"     -> db_file
                                  [] k = "target_table"  -> table_name
                                  [] k = "action_details" -> details])
         IN [c |-> r.c, raised |-> FALSE, caught |-> IF r.raised THEN 1 ELSE 0]

\* Form keys that are never columns.
SkippedKeys == {"csrf_token", "submit"}

\* Mutation of is_filled: blank values are kept.
is_filled_always(key, value) == key \notin SkippedKeys

\* key not in ['csrf_token', 'submit'] and value.strip()
is_filled(key, value) == key \notin SkippedKeys /\ strip(value) # ""

Recorded(r, table_name, form, rowid, caught) ==
    [r EXCEPT !.table = table_name, !.form = form, !.rowid = rowid, !.caught = caught]

\* The new filesystem and what is flashed, for a POST of form.
add_database_record(f, db_file, table_name, form) ==
    LET full_path == get_connection_path(BareRef(db_file))
        fail(msg) == [fs |-> f, result |-> Recorded(Result("add_record", FALSE, msg, full_path,
                                                           "", 0), table_name, form, 0, 0)]
        fields == [k \in {k \in DOMAIN form : is_filled(k, form[k])} |-> form[k]]
    IN
    IF ~Exists(f, full_path) THEN fail("Error adding record")
    ELSE IF DOMAIN fields = {} THEN fail("Please fill at least one field")
    ELSE LET ins == SqlInsert(f[full_path], table_name, fields) IN
         IF ins.raised THEN fail("Error adding record")
         ELSE LET log == LogAdminAction(ins.c, "INSERT", db_file, table_name,
                                        <<"Added new record ID", ins.lastrowid>>)
              IN IF log.raised THEN fail("Error adding record")
                 ELSE [fs |-> [f EXCEPT ![full_path] = log.c],
                       result |-> Recorded(Result("add_record", TRUE, "Record added successfully!",
                                                  full_path, "", 0),
                                           table_name, form, ins.lastrowid, log.caught)]

\* The new filesystem and what is flashed, for a POST of form to record_id.
edit_database_record(f, db_file, table_name, record_id, form) ==
    LET full_path == get_connection_path(BareRef(db_file))
        fail(msg) == [fs |-> f, result |-> Recorded(Result("edit_record", FALSE, msg, full_path,
                                                           "", 0), table_name, form, record_id, 0)]
        updates == [k \in DOMAIN form \ SkippedKeys |-> form[k]]
    IN
    IF ~Exists(f, full_path) THEN fail("Error editing record")
    ELSE IF DOMAIN updates = {}
    \* no update is made: the GET branch looks the record up
    THEN IF ~HasTable(f[full_path], table_name) THEN fail("Error editing record")
         ELSE IF \E r \in Range(f[full_path].tables[table_name]) : r.id = record_id
         THEN [fs |-> f, result |-> Recorded(Result("edit_record", TRUE, "", full_path, "", 0),
                                             table_name, form, record_id, 0)]
         ELSE fail("Record not found")
    ELSE LET upd == SqlUpdate(f[full_path], table_name, updates, record_id) IN
         IF upd.raised THEN fail("Error editing record")
         ELSE LET log == LogAdminAction(upd.c, "UPDATE", db_file, table_name,
                                        <<"Updated record ID", record_id>>)
              IN IF log.raised THEN fail("Error editing record")
                 ELSE [fs |-> [f EXCEPT ![full_path] = log.c],
                       result |-> Recorded(Result("edit_record", TRUE,
                                                  "Record updated successfully!",
                                                  full_path, "", 0),
                                           table_name, form, record_id, log.caught)]

\* The forms posted: per table one that fills the required fields and leaves
\* the others blank, one whose values have spaces and leading zeros, one with
\* every field blank, and one that leaves a required field blank.
Form(setting_key, setting_value, description, updated_at) ==
    [k \in {"setting_key", "setting_value", "description", "updated_at", "submit"} |->
        CASE k = "setting_key"   -> setting_key
          [] k = "setting_value" -> setting_value
          [] k = "description"   -> description
          [] k = "updated_at"    -> updated_at
          [] k = "submit"        -> "Save"]

UserForm(username, email, password) ==
    [k \in {"username", "email", "password", "csrf_token"} |->
        CASE k = "username" -> username
          [] k = "email"    -> email
          [] k = "password" -> password
          [] k = "csrf_token" -> "token"]

AddForms(table_name) ==
    IF table_name = "users"
    THEN {UserForm("x", "e1", "pw"), UserForm("x", " ", "pw")}
    ELSE {Form("x", "", " ", ""), Form(" x ", "x", "", "007"), Form("", " ", "", ""),
          Form("", "x", "", "")}

EditForms(table_name) ==
    IF table_name = "users"
    THEN {[k \in {"username", "csrf_token"} |-> "x"]}
    ELSE {[k \in {"setting_value", "description", "submit"} |-> IF k = "description" THEN "" ELSE "x"],
          [k \in {"setting_key", "updated_at"} |-> IF k = "setting_key" THEN "x" ELSE "007"],
          [k \in {"submit"} |-> "Save"]}

RequestTables == {"users", "system_settings", "nope"}

RecordIds == {1, 9}

StoredNames(f) == {loc[2] : loc \in StorageFiles(f)}

\* The table and the audit table of the file have fewer than MaxRows rows.
RoomFor(f, db_file, table_name) ==
    LET full_path == InStorage(db_file) IN
    \A t \in {table_name, "admin_actions"} :
        (Exists(f, full_path) /\ HasTable(f[full_path], t))
            => Len(f[full_path].tables[t]) < MaxRows

AddDatabaseRecord(db_file, table_name, form) ==
    /\ ~inflight.active
    /\ RoomFor(fs, db_file, table_name)
    /\ LET r == add_database_record(fs, db_file, table_name, form) IN
        /\ fs' = r.fs
        /\ result' = r.result
    /\ UNCHANGED <<discovered, deleted, backups, now, inflight, quote, requests>>

EditDatabaseRecord(db_file, table_name, record_id, form) ==
    /\ ~inflight.active
    /\ RoomFor(fs, db_file, "admin_actions")
    /\ LET r == edit_database_record(fs, db_file, table_name, record_id, form) IN
        /\ fs' = r.fs
        /\ result' = r.result
    /\ UNCHANGED <<discovered, deleted, backups, now, inflight, quote, requests>>

NextRecords ==
    \/ \E db_file \in StoredNames(fs), t \in RequestTables :
          \E form \in AddForms(t) : AddDatabaseRecord(db_file, t, form)
    \/ \E db_file \in StoredNames(fs), t \in RequestTables, record_id \in RecordIds :
          \E form \in EditForms(t) : EditDatabaseRecord(db_file, t, record_id, form)

-----------------------------------------------------------------------------
(* The startup seeder (init_databases.py).                                 *)

\* The two ephemeral_paths, in the order of the list.
LegacyDirs == <<"/opt/render/project/src", "/opt/render/project/src/data/databases">>

AdminEmail == "admin@mbbsqbank.com"

StudentEmail == "priyanshu62@gmail.com"

PasswordHash == "<hash>"

ThirdYearDb == <<"3rd", "_", "year", ".db">>

AnatomyMcqDb == <<"anatomy", "_", "mcq", ".db">>

GeneralMcqDb == <<"general", "_", "mcq", ".db">>

SeedRows(n, subject) == [i \in 1..n |-> [id |-> i, subject |-> subject]]

\* The columns migrate_ephemeral_users selects from the legacy users table.
SelectedColumns ==
    {"username", "email", "password", "first_name", "last_name", "user_type", "is_active",
     "created_at"}

\* Mutation of user_exists: the look-up before the INSERT is lost.
user_exists_unchecked(c, email) == FALSE

\* SELECT COUNT(*) FROM users WHERE email = ? is not 0 (never so for NULL).
user_exists(c, email) == email # NULL /\ email \in Emails(c)

\* One legacy user: looked up by email and inserted when absent; an exception
\* (no users table, a missing column, a constraint) is printed and dropped.
MigrateEphemeralUser(c, user) ==
    IF ~HasTable(c, "users") THEN c
    ELSE IF user_exists(c, user.email) THEN c
    ELSE IF ~(SelectedColumns \subseteq UsersColumns(c.usersDDL)) THEN c
    ELSE LET rows == c.tables["users"]
             conflict ==
                 \/ \E col \in NotNullColumns(c.usersDDL) : user[col] = NULL
                 \/ UniqueEmail(c.usersDDL) /\ user.email # NULL /\ user.email \in Emails(c)
         IN IF conflict THEN c
            ELSE [c EXCEPT !.tables["users"] =
                     Append(rows, UserRow(Len(rows) + 1, user.username, user.email,
                                          user.password))]

RECURSIVE MigrateEphemeralRows(_, _)
MigrateEphemeralRows(c, users) ==
    IF users = <<>> THEN c
    ELSE MigrateEphemeralRows(MigrateEphemeralUser(c, Head(users)), Tail(users))

\* One ephemeral path: skipped when there is no file, or when the SELECT of
\* its users raises (not a database, no users table, a missing column).
MigrateEphemeralPath(f, ephemeral_path) ==
    LET persistent_db_path == InStorage(AdminUsersDb) IN
    IF ~Exists(f, ephemeral_path) THEN f
    ELSE IF ~HasTable(f[ephemeral_path], "users") THEN f
    ELSE IF ~(SelectedColumns \subseteq UsersColumns(f[ephemeral_path].usersDDL)) THEN f
    ELSE [f EXCEPT ![persistent_db_path] =
             MigrateEphemeralRows(@, f[ephemeral_path].tables["users"])]

migrate_ephemeral_users(f) ==
    MigrateEphemeralPath(MigrateEphemeralPath(f, <<LegacyDirs[1], AdminUsersDb>>),
                         <<LegacyDirs[2], AdminUsersDb>>)

\* ALTER TABLE users ADD COLUMN for each of the five columns that is missing.
ensure_schema_updates(f) ==
    LET admin_db_path == InStorage(AdminUsersDb) IN
    IF ~Exists(f, admin_db_path) \/ ~HasTable(f[admin_db_path], "users") THEN f
    ELSE IF f[admin_db_path].usersDDL = "narrow"
    THEN [f EXCEPT ![admin_db_path].usersDDL = "patched"]
    ELSE f

SeederSchema ==
    {"users", "user_bookmarks", "user_notes", "user_topic_completion", "user_analytics",
     "admin_actions"}

create_admin_users_database(f) ==
    Put(f, InStorage(AdminUsersDb),
        [Database([t \in SeederSchema |-> <<>>], "catalog") EXCEPT !.auditDDL = "seeder"])

\* INSERT OR REPLACE of the rows with id 1 and id 2: a row with that id, or
\* with that email, gives way.
InsertOrReplaceUser(c, row) ==
    LET kept == SelectSeq(c.tables["users"],
                          LAMBDA r : r.id # row.id /\ r.email # row.email)
    IN [c EXCEPT !.tables["users"] = Append(kept, row)]

add_default_users(c) ==
    InsertOrReplaceUser(
        InsertOrReplaceUser(c, UserRow(1, "admin", AdminEmail, PasswordHash)),
        UserRow(2, "priyanshuguha", StudentEmail, PasswordHash))

\* Mutation of ensure_admin: the account is written as add_default_users
\* writes it, replacing what is in its way.
ensure_admin_replacing(c) ==
    [c |-> InsertOrReplaceUser(c, UserRow(1, "admin", AdminEmail, PasswordHash)),
     raised |-> FALSE]

\* The existing file: count the rows with the administrator's email and
\* INSERT the account when there is none.  The count raises without a users
\* table, the INSERT without the columns user_type and is_active.
ensure_admin(c) ==
    IF ~HasTable(c, "users") THEN [c |-> c, raised |-> TRUE]
    ELSE IF AdminEmail \in Emails(c) THEN [c |-> c, raised |-> FALSE]
    ELSE IF ~({"first_name", "last_name", "user_type", "is_active"}
                \subseteq UsersColumns(c.usersDDL))
    THEN [c |-> c, raised |-> TRUE]
    ELSE [c |-> [c EXCEPT !.tables["users"] =
                    Append(@, UserRow(Len(@) + 1, "admin", AdminEmail, PasswordHash))],
          raised |-> FALSE]

\* Each content database is made, with its table and seed rows, when no file
\* of its name exists.
create_qbank_databases(f) ==
    LET made(g, name, table_name, n, subject) ==
            IF Exists(g, InStorage(name)) THEN g
            ELSE Put(g, InStorage(name),
                     Database([t \in {table_name} |-> SeedRows(n, subject)], "catalog"))
    IN made(made(made(f, ThirdYearDb, "qbank", 10, "Anatomy"),
                 AnatomyMcqDb, "mcq_questions", 5, "Anatomy"),
            GeneralMcqDb, "general_questions", 3, "General Medicine")

\* The filesystem after the run and whether the run raised.
initialize_databases_on_startup(f) ==
    LET admin_db_path == InStorage(AdminUsersDb) IN
    IF Exists(f, admin_db_path)
    THEN LET f2 == ensure_schema_updates(migrate_ephemeral_users(f))
             adm == ensure_admin(f2[admin_db_path])
         IN IF adm.raised
            THEN [fs |-> f2, raised |-> TRUE]
            ELSE [fs |-> create_qbank_databases([f2 EXCEPT ![admin_db_path] = adm.c]),
                  raised |-> FALSE]
    ELSE LET f2 == create_admin_users_database(f) IN
         [fs |-> create_qbank_databases([f2 EXCEPT ![admin_db_path] = add_default_users(@)]),
          raised |-> FALSE]

\* A run of the seeder at process start; the handler's cache is not touched.
InitializeDatabasesOnStartup ==
    /\ ~inflight.active
    /\ LET r == initialize_databases_on_startup(fs) IN
        /\ fs' = r.fs
        /\ result' = Result("seed", ~r.raised, IF r.raised THEN "raised" ELSE "completed",
                            InStorage(AdminUsersDb), "", 0)
    /\ UNCHANGED <<discovered, deleted, backups, now, inflight, quote, requests>>

\* A run that is cut short.  What is on the disk then is what the run had
\* made durable: sqlite3.connect has made the file, every CREATE TABLE is
\* committed as it is executed, and the INSERTs are there only after the
\* commit that follows them.
AdminTables ==
    <<"users", "user_bookmarks", "user_notes", "user_topic_completion", "user_analytics",
      "admin_actions">>

SeederFile(tables) == [Database(tables, "catalog") EXCEPT !.auditDDL = "seeder"]

\* create_admin_users_database and add_default_users, write by write.
FreshAdminStages(f) ==
    LET admin_db_path == InStorage(AdminUsersDb)
        after(k) == Put(f, admin_db_path,
                        SeederFile([t \in {AdminTables[i] : i \in 1..k} |-> <<>>]))
    IN [k \in 1..(Len(AdminTables) + 1) |-> after(k - 1)]
          \o <<[after(Len(AdminTables)) EXCEPT ![admin_db_path] = add_default_users(@)]>>

\* The branch for an existing admin_users.db, write by write; the last entry
\* is the file after the administrator was looked up.
ExistingAdminStages(f) ==
    LET admin_db_path == InStorage(AdminUsersDb)
        f1 == MigrateEphemeralPath(f, <<LegacyDirs[1], AdminUsersDb>>)
        f2 == migrate_ephemeral_users(f)
        f3 == ensure_schema_updates(f2)
        adm == ensure_admin(f3[admin_db_path])
    IN <<f1, f2, f3>> \o (IF adm.raised THEN <<>> ELSE <<[f3 EXCEPT ![admin_db_path] = adm.c]>>)

\* One content database of create_qbank_databases, write by write.
ContentStages(g, name, table_name, n, subject) ==
    IF Exists(g, InStorage(name)) THEN <<>>
    ELSE << Put(g, InStorage(name), Database(EmptyFn, "catalog")),
            Put(g, InStorage(name), Database([t \in {table_name} |-> <<>>], "catalog")),
            Put(g, InStorage(name),
                Database([t \in {table_name} |-> SeedRows(n, subject)], "catalog")) >>

QbankStages(g) ==
    LET s1 == <<g>> \o ContentStages(g, ThirdYearDb, "qbank", 10, "Anatomy")
        s2 == s1 \o ContentStages(s1[Len(s1)], AnatomyMcqDb, "mcq_questions", 5, "Anatomy")
        s3 == s2 \o ContentStages(s2[Len(s2)], GeneralMcqDb, "general_questions", 3,
                                  "General Medicine")
    IN Tail(s3)

\* The disk after each write of a run of initialize_databases_on_startup.
StartupStages(f) ==
    LET admin_db_path == InStorage(AdminUsersDb)
        adm == IF Exists(f, admin_db_path) THEN ExistingAdminStages(f) ELSE FreshAdminStages(f)
    IN IF Exists(f, admin_db_path) /\ Len(adm) = 3 THEN adm
       ELSE adm \o QbankStages(adm[Len(adm)])

\* The process dies, or is killed, after the k-th write of a run.
InterruptedStartup(k) ==
    /\ ~inflight.active
    /\ k \in 1..(Len(StartupStages(fs)) - 1)
    /\ fs' = StartupStages(fs)[k]
    /\ fs' # fs
    /\ result' = Result("seed", FALSE, "interrupted", InStorage(AdminUsersDb), "", 0)
    /\ UNCHANGED <<discovered, deleted, backups, now, inflight, quote, requests>>

MaxWrites == 18    \* writes of one run of the seeder

-----------------------------------------------------------------------------
(* Files that reach the storage directory without the handler: written by  *)
(* another process or copied onto the disk.                                *)

CYearDb == <<"c", "_", "year", ".db">>

Placed ==
    Database([t \in {"qbank", "users", "bookmarks"} |->
                 CASE t = "users" -> <<UserRow(1, "u3", "e1", "pw")>>
                   [] t = "bookmarks" -> <<[user_id |-> 1, question_id |-> 7]>>
                   [] OTHER -> <<>>],
             "bare")

PlaceFile ==
    /\ ~inflight.active
    /\ Cardinality(StorageFiles(fs)) < MaxFiles
    /\ ~Exists(fs, InStorage(CYearDb))
    /\ fs' = Put(fs, InStorage(CYearDb), Placed)
    /\ result' = Result("place", TRUE, "", InStorage(CYearDb), "", 0)
    /\ UNCHANGED <<discovered, deleted, backups, now, inflight>>
    /\ UNCHANGED <<quote, requests>>

\* The admin_users.db an earlier deployment left at a historical location:
\* one with the users table of today, and one with the narrow users table.
LegacyUsers ==
    Database([t \in {"users"} |->
                 <<UserRow(1, "u1", "e1", "pw"), UserRow(2, "admin", AdminEmail, "old")>>],
             "catalog")

NarrowUsers == Database([t \in {"users"} |-> <<UserRow(1, "u2", "e2", "pw")>>], "narrow")

LegacyLocations == {<<LegacyDirs[i], AdminUsersDb>> : i \in DOMAIN LegacyDirs}

PlaceLegacy(loc, content) ==
    /\ ~inflight.active
    /\ ~Exists(fs, loc)
    /\ fs' = Put(fs, loc, content)
    /\ result' = Result("place_legacy", TRUE, "", loc, "", 0)
    /\ UNCHANGED <<discovered, deleted, backups, now, inflight, quote, requests>>

\* A user file with one account and no administrator.
OldUsers == Database([t \in {"users"} |-> <<UserRow(1, "u2", "e2", "pw")>>], "bare")

\* An older admin_users.db brought back through the upload form.
SeedUploads ==
    { Upload(AdminUsersDb, NarrowUsers, "users"),
      Upload(AdminUsersDb, OldUsers, "users"),
      Upload(AdminUsersDb, QbankOnly, "users") }

\* The manager's home page: refreshes the cache.
DynamicDbHome ==
    /\ ~inflight.active
    /\ discovered' = Refreshed(fs)
    /\ result' = Result("home", TRUE, "", NoLoc, "", 0)
    /\ UNCHANGED <<fs, deleted, backups, now, inflight>>
    /\ UNCHANGED <<quote, requests>>

-----------------------------------------------------------------------------
(* edit_database_table: the paginated listing of a table.                  *)

MaxPage == 3       \* page numbers requested
MaxListed == 51    \* rows of a listed table

per_page == 25

\* COALESCE(id, 0); a row that carries no id has NULL there.
coalesce_id(row) == IF "id" \in DOMAIN row THEN row.id ELSE 0

\* ORDER BY COALESCE(id, 0) DESC: the sorter keeps rows of equal key in the
\* order of the scan.
RECURSIVE OrderByIdDesc(_)
OrderByIdDesc(rows) ==
    IF rows = <<>> THEN <<>>
    ELSE LET n == Len(rows)
             row == rows[n]
             sorted == OrderByIdDesc(SubSeq(rows, 1, n - 1))
             k == Cardinality({i \in DOMAIN sorted : coalesce_id(sorted[i]) >= coalesce_id(row)})
         IN SubSeq(sorted, 1, k) \o <<row>> \o SubSeq(sorted, k + 1, Len(sorted))

\* LIMIT ? OFFSET ?
LimitOffset(rows, limit, offset) ==
    [i \in 1..(IF Len(rows) - offset < limit
               THEN (IF Len(rows) > offset THEN Len(rows) - offset ELSE 0)
               ELSE limit) |-> rows[offset + i]]

\* Mutation of page_offset: the page number taken as 0-based.
page_offset_zero_based(page) == page * per_page

\* offset = (page - 1) * per_page
page_offset(page) == (page - 1) * per_page

Listed(r, table_name, data, page, total) ==
    [r EXCEPT !.table = table_name, !.data = data, !.page = page, !.total = total]

\* What the route renders, or the message it flashes.
edit_database_table(f, db_file, table_name, page) ==
    LET full_path == get_connection_path(BareRef(db_file))
        fail(msg) == Listed(Result("edit_table", FALSE, msg, full_path, "", 0),
                            table_name, <<>>, page, 0)
    IN
    IF ~Exists(f, full_path) THEN fail("Critical error accessing table")
    ELSE IF ~f[full_path].db THEN fail("Critical error accessing table")
    ELSE IF ~HasTable(f[full_path], table_name) THEN fail("does not exist in database")
    ELSE LET rows == f[full_path].tables[table_name]
             data == LimitOffset(OrderByIdDesc(rows), per_page, page_offset(page))
         IN Listed(Result("edit_table", TRUE, "", full_path, "", 0),
                   table_name, data, page, Len(rows))

ListedTableNames == {"qbank", "nope"}

EditDatabaseTable(db_file, table_name, page) ==
    /\ ~inflight.active
    /\ result' = edit_database_table(fs, db_file, table_name, page)
    /\ UNCHANGED <<fs, discovered, deleted, backups, now, inflight, quote, requests>>

\* Tables of an uploaded question bank whose id column is declared without
\* a type: ids in the order of insertion, in the reverse order, with one
\* NULL, and with a negative id, a NULL and a 0.
ListedRow(i, shape, n) ==
    CASE shape = "ascending" -> [id |-> i, question |-> i]
      [] shape = "descending" -> [id |-> n + 1 - i, question |-> i]
      [] shape = "null" -> IF i = 1 THEN [question |-> i] ELSE [id |-> i, question |-> i]
      [] shape = "mixed" -> IF i = 2 THEN [question |-> i] ELSE [id |-> i - 2, question |-> i]

ListedTables ==
    {[i \in 1..n |-> ListedRow(i, shape, n)] :
        n \in 0..MaxListed, shape \in {"ascending", "descending", "null", "mixed"}}

\* The handler over a storage directory with one question bank.
InitListing ==
    /\ \E rows \in ListedTables :
          fs = [loc \in {InStorage(CYearDb)} |-> Database([t \in {"qbank"} |-> rows], "bare")]
    /\ discovered = Unset
    /\ deleted = EmptyFn
    /\ backups = EmptyFn
    /\ now = 0
    /\ inflight = Idle
    /\ result = Result("init", TRUE, "", NoLoc, "", 0)
    /\ requests = NoRequests
    /\ quote = Raw(<<>>)

NextListing ==
    \E db_file \in {CYearDb, AdminUsersDb}, table_name \in ListedTableNames, page \in 1..MaxPage :
        EditDatabaseTable(db_file, table_name, page)

\* The clock is seen only in the names of the backup directories: it moves on
\* from a second that names one to a second that names none.
UsedTimestamps == {k[1] : k \in DOMAIN deleted} \cup {k[1] : k \in DOMAIN backups}

Tick ==
    /\ now \in UsedTimestamps
    /\ now' = now + 1
    /\ UNCHANGED <<fs, discovered, deleted, backups, inflight, result>>
    /\ UNCHANGED <<quote, requests>>

\* How files and the cache come about.
NextFiles ==
    \/ \E cat \in CreateCategories, b \in BaseNames : AddNewDatabase(cat, b)
    \/ \E u \in Uploads : UploadDatabase(u)
    \/ PlaceFile
    \/ DynamicDbHome

NextDelete ==
    \/ \E ref \in Refs(fs) : DeleteDatabase(ref)
    \/ DeleteRemove
    \/ DeleteRemoveFails

\* The seeder, the legacy files it reads and the canonical files it meets.
NextSeed ==
    \/ InitializeDatabasesOnStartup
    \/ \E loc \in LegacyLocations, content \in {LegacyUsers, NarrowUsers} : PlaceLegacy(loc, content)
    \/ \E u \in SeedUploads : UploadDatabase(u)

Next ==
    \/ NextFiles
    \/ \E ref \in Refs(fs) : GetConnection(ref)
    \/ NextDelete
    \/ BackupAllDatabases
    \/ MigrateUsers
    \/ Tick
    \/ SafeTableName
    \/ NextRecords
    \/ NextSeed
    \/ NextRequests
    \/ \E k \in 1..MaxWrites : InterruptedStartup(k)
    \/ \E db_file \in StoredNames(fs), table_name \in ListedTableNames, page \in 1..MaxPage :
          EditDatabaseTable(db_file, table_name, page)

\* The whole handler.
Spec == Init /\ [][Next]_vars

\* Create, upload and connection resolution.
SpecFiles == Init /\ [][NextFiles \/ (\E ref \in Refs(fs) : GetConnection(ref))]_vars

\* Delete, over created and placed files.
SpecDelete ==
    Init /\ [][\/ \E cat \in CreateCategories, b \in BaseNames : AddNewDatabase(cat, b)
               \/ PlaceFile
               \/ NextDelete
               \/ Tick]_vars

\* User migration.
SpecMigrate == Init /\ [][NextFiles \/ MigrateUsers]_vars

\* Bulk backup.
SpecBackup == Init /\ [][NextFiles \/ BackupAllDatabases \/ Tick]_vars

\* The record editor, over files of the admin and users categories.
SpecRecords ==
    Init /\ [][\/ \E cat \in {"admin", "users"}, b \in BaseNames : AddNewDatabase(cat, b)
               \/ NextRecords]_vars

\* The record editor and its audit rows, over the files of the seeder.
SpecAudit == Init /\ [][InitializeDatabasesOnStartup \/ NextRecords]_vars

\* The startup seeder, over fresh storage and created or uploaded user files.
SpecSeed ==
    Init /\ [][\/ \E b \in BaseNames : AddNewDatabase("users", b)
               \/ NextSeed]_vars

\* Requests served two at a time.
SpecConcurrent == Init /\ [][NextRequests]_vars

\* The operations that write or remove files, with the requests that name
\* the file of the centralized users.
ReservedUploads ==
    { Upload(AdminUsersDb, QbankOnly, "qbank"),
      Upload(AdminUsersDb, BareUsers, "users") }

SpecReserved ==
    Init /\ [][\/ \E cat \in {"admin", "users"} : AddNewDatabase(cat, <<"users">>)
               \/ \E u \in ReservedUploads : UploadDatabase(u)
               \/ NextDelete
               \/ MigrateUsers
               \/ InitializeDatabasesOnStartup]_vars

\* User migration into the centralized file the seeder made.
SpecOwners == Init /\ [][NextFiles \/ InitializeDatabasesOnStartup \/ MigrateUsers]_vars

\* Uploads of a file of MCQ questions, under a name of the mcq pattern and
\* under one of the qbank pattern.
McqOnly == Database([t \in {"mcq_questions"} |-> <<>>], "bare")

CategoryUploads ==
    { Upload(<<"a", "_", "mcq", ".db">>, McqOnly, "mcq"),
      Upload(BYearRaw, McqOnly, "mcq") }

SpecUploads == Init /\ [][NextFiles \/ (\E u \in CategoryUploads : UploadDatabase(u))]_vars

\* The seeder, run to the end or cut short, over fresh storage and legacy files.
SpecCrash ==
    Init /\ [][\/ InitializeDatabasesOnStartup
               \/ \E k \in 1..MaxWrites : InterruptedStartup(k)
               \/ \E loc \in LegacyLocations : PlaceLegacy(loc, LegacyUsers)]_vars

\* The table listing, over tables of up to MaxListed rows.
SpecListing == InitListing /\ [][NextListing]_vars

\* Identifier quoting, over every name of up to MaxLen characters.
SpecQuote == InitQuote /\ [][SafeTableName]_vars

-----------------------------------------------------------------------------
(* The claims.                                                             *)

Central == InStorage(AdminUsersDb)

Unchanged(loc) == Exists(fs', loc) /\ fs'[loc] = fs[loc]

\* C1 (as claimed): whatever reference to admin_users.db a delete request
\* carries, no step of a delete removes or changes the centralized user file.
C1_DeleteKeepsCentral ==
    [][(inflight.active /\ Exists(fs, Central)) => Unchanged(Central)]_vars

\* C2 (as claimed): the file get_connection opens lies in the storage
\* directory, whatever the reference.
C2_OpensOnlyInStorage ==
    (result.op = "get_connection" /\ result.ok) => result.file[1] = StorageDir

ValidationFailures == {"Database missing required table", "Error uploading database"}

\* C3: an upload that fails validation (a required table is missing, or the
\* validation raised) leaves the storage as it was before the call, and the
\* uploaded file is not in it.
C3_FailedUploadLeavesNoTrace ==
    [][(result'.op = "upload" /\ result'.msg \in ValidationFailures)
          => /\ ~result'.ok
             /\ ~Exists(fs', result'.file)
             /\ fs' = fs]_vars

C3_Witness ==
    /\ result.op = "upload"
    /\ result.msg = "Database missing required table"
    /\ result.file = InStorage(<<"b", "_", "year", ".db">>)
    /\ ~Exists(fs, result.file)
    /\ StorageFiles(fs) # {}

\* C4: create and upload never overwrite: a step of either leaves every
\* existing file as it was, succeeds only on a target that did not exist,
\* reports failure and changes nothing when the target exists, and a create
\* with an unknown category fails and creates nothing.
C4_NeverOverwrites ==
    [][result'.op \in {"create", "upload"}
          => /\ \A loc \in DOMAIN fs : Unchanged(loc)
             /\ result'.ok => (~Exists(fs, result'.file) /\ Exists(fs', result'.file))
             /\ (result'.file # NoLoc /\ Exists(fs, result'.file))
                   => (~result'.ok /\ result'.msg = "already exists" /\ fs' = fs)
             /\ (result'.op = "create" /\ result'.cat \notin Categories)
                   => (~result'.ok /\ fs' = fs)]_vars

C4_Witness ==
    /\ result.op \in {"create", "upload"}
    /\ result.msg = "already exists"
    /\ Exists(fs, result.file)

\* C5 (as claimed): after a successful create the new file is listed by
\* discover_databases() under the category given, and holds every table of
\* the category's bundle with no rows.
C5_CreatedIsDiscovered ==
    (result.op = "create" /\ result.ok)
        => /\ result.file \in discover_databases(fs)[result.cat]
           /\ DOMAIN fs[result.file].tables = Schema(result.cat)
           /\ \A t \in Schema(result.cat) : fs[result.file].tables[t] = <<>>

\* C6: a file leaves the storage directory only in a delete whose copy, with
\* the same content, was already at deleted_backups/<ts>/<name>, and the
\* copy is still there afterwards.
C6_BackupBeforeRemove ==
    [][\A loc \in StorageFiles(fs) :
          ~Exists(fs', loc)
             => /\ inflight.active /\ inflight.path = loc
                /\ <<inflight.ts, loc[2]>> \in DOMAIN deleted
                /\ deleted[<<inflight.ts, loc[2]>>] = fs[loc]
                /\ <<inflight.ts, loc[2]>> \in DOMAIN deleted'
                /\ deleted'[<<inflight.ts, loc[2]>>] = fs[loc]]_vars

C6_Witness ==
    /\ result.op = "delete" /\ result.ok
    /\ ~Exists(fs, result.file)
    /\ <<result.backup_dir, result.file[2]>> \in DOMAIN deleted

UsersOf(f) == IF Exists(f, Central) /\ HasTable(f[Central], "users")
              THEN f[Central].tables["users"] ELSE <<>>

DistinctEmails(rows) ==
    \A i, j \in DOMAIN rows : rows[i].email = rows[j].email => i = j

\* C7 (as claimed): however often the migration has run over the same source
\* files, no email is in more than one row of the centralized users table,
\* before or after any run.
C7_NoDuplicateEmails == DistinctEmails(UsersOf(fs))

\* C8 (as claimed): the count a successful migration reports is the number
\* of rows it added to the centralized users table.
C8_CountIsRowsInserted ==
    [][(result'.op = "migrate" /\ result'.ok)
          => result'.count = Len(UsersOf(fs')) - Len(UsersOf(fs))]_vars

\* C9 (as claimed): after a successful migration every email of every users
\* table in a qbank-pattern file of the storage directory is in the
\* centralized users table.
C9_EveryStoredUserMigrated ==
    [][(result'.op = "migrate" /\ result'.ok)
          => \A loc \in discover_databases(fs)["qbank"] :
                 HasTable(fs[loc], "users") => Emails(fs[loc]) \subseteq Emails(fs'[Central])]_vars

\* C10 (as claimed): a bulk backup succeeds, copies every file that
\* discover_databases() lists into <backup dir>/<category>/, and reports
\* their number.
C10_BackupCopiesAllDiscovered ==
    result.op = "backup"
        => /\ result.ok
           /\ \A cat \in Categories : \A loc \in discover_databases(fs)[cat] :
                 /\ <<result.backup_dir, cat, loc[2]>> \in DOMAIN backups
                 /\ backups[<<result.backup_dir, cat, loc[2]>>] = fs[loc]
           /\ result.count = BackupCount(discover_databases(fs))

\* C11 (as claimed): quoting a quoted name changes nothing, and quoting the
\* end-stripped form of a name gives what quoting the name gives.
C11_QuotingIdempotent ==
    /\ quote.applied = 2 => quote.s = quote.prev
    /\ quote.applied = 1 => safe_table_name(clean_name(quote.given)) = quote.s

Last(name) == name[Len(name)]

\* What each pattern of the catalog asks of a file name, said without glob.
NameFits(cat, name) ==
    /\ name # <<>> /\ Last(name) = ".db" /\ ~IsHidden(name)
    /\ CASE cat = "qbank" -> \E i \in 1..(Len(name) - 1) : name[i] = "year"
         [] cat = "mcq"   -> \E i \in 1..(Len(name) - 1) : name[i] = "mcq"
         [] cat = "test"  -> \E i \in 1..(Len(name) - 1) : name[i] = "test"
         [] cat = "admin" -> Len(name) >= 2 /\ Head(name) = "admin"
         [] cat = "users" -> name = <<"admin", "_", "users", ".db">>

\* C12: a refresh lists, for every category, exactly the files directly in
\* the storage directory whose names fit the category's pattern; a category
\* nothing fits, and every category of an empty storage, gets the empty list.
C12_DiscoverListsExactlyMatches ==
    result.op = "home"
        => /\ result.ok /\ discovered.set
           /\ \A cat \in Categories :
                 discovered.dbs[cat] =
                     {loc \in DOMAIN fs : loc[1] = StorageDir /\ NameFits(cat, loc[2])}
           /\ StorageFiles(fs) = {} => \A cat \in Categories : discovered.dbs[cat] = {}

\* A refresh over a storage with a file in two categories, a file in none and
\* empty categories, while a matching file lies outside the storage directory.
C12_Witness ==
    /\ result.op = "home"
    /\ discovered.dbs["users"] # {} /\ discovered.dbs["admin"] # {}
    /\ discovered.dbs["qbank"] = {}
    /\ \E loc \in StorageFiles(fs) : \A cat \in Categories : loc \notin discovered.dbs[cat]
    /\ \E loc \in DOMAIN fs : loc[1] # StorageDir /\ NameFits("users", loc[2])

\* What a POST of the record editor asks for, read off the result it left.
PostedFields(r) == DOMAIN r.form \ SkippedKeys

FilledFields(r) == {k \in PostedFields(r) : strip(r.form[k]) # ""}

\* C13 as claimed: a successful add leaves one new row in which every filled
\* field holds exactly the submitted value and every blank field holds the
\* column's default or NULL, never the empty string; a form with every field
\* blank adds no row and reports the validation error.
C13_AddedRowHoldsSubmittedValues ==
    [][result'.op = "add_record" =>
        LET r == result' IN
        /\ FilledFields(r) = {} =>
              /\ ~r.ok
              /\ fs' = fs
              /\ Exists(fs, r.file) => r.msg = "Please fill at least one field"
        /\ r.ok =>
              LET rows == fs'[r.file].tables[r.table]
                  cols == Columns(fs'[r.file], r.table)
                  row  == rows[Len(rows)]
              IN /\ Len(rows) = Len(fs[r.file].tables[r.table]) + 1
                 /\ row.id = r.rowid
                 /\ \A k \in FilledFields(r) : row[k] = r.form[k]
                 /\ \A k \in PostedFields(r) \ FilledFields(r) :
                        row[k] # "" /\ row[k] = cols[k].default]_vars

\* C13, amended: as above, but a filled field holds the submitted value as
\* the type affinity of its column stores it (a numeric literal posted to a
\* numeric column comes back as the number).
C13_AddedRowHoldsStoredValues ==
    [][result'.op = "add_record" =>
        LET r == result' IN
        /\ FilledFields(r) = {} =>
              /\ ~r.ok
              /\ fs' = fs
              /\ Exists(fs, r.file) => r.msg = "Please fill at least one field"
        /\ r.ok =>
              LET rows == fs'[r.file].tables[r.table]
                  cols == Columns(fs'[r.file], r.table)
                  row  == rows[Len(rows)]
              IN /\ Len(rows) = Len(fs[r.file].tables[r.table]) + 1
                 /\ row.id = r.rowid
                 /\ \A k \in FilledFields(r) : row[k] = Affinity(cols[k].affinity, r.form[k])
                 /\ \A k \in PostedFields(r) \ FilledFields(r) :
                        row[k] # "" /\ row[k] = cols[k].default]_vars

\* A record was added from a form with a padded value, a numeric literal and
\* a blank field, and the new row is the last of its table.
C13_Witness ==
    /\ result.op = "add_record" /\ result.ok
    /\ result.form = Form(" x ", "x", "", "007")
    /\ LET rows == fs[result.file].tables[result.table] IN
          /\ rows[Len(rows)].id = result.rowid
          /\ rows[Len(rows)].setting_key = " x "
          /\ rows[Len(rows)].description = NULL

\* C14: an update posted for an id that no row of the table has succeeds and
\* leaves every row of the table as it was.
C14_EditOfMissingIdChangesNoRow ==
    [][(/\ result'.op = "edit_record"
        /\ PostedFields(result') # {}
        /\ Exists(fs, result'.file)
        /\ HasTable(fs[result'.file], result'.table)
        /\ PostedFields(result') \subseteq DOMAIN Columns(fs[result'.file], result'.table)
        /\ \A row \in Range(fs[result'.file].tables[result'.table]) : row.id # result'.rowid)
       => /\ result'.ok
          /\ result'.msg = "Record updated successfully!"
          /\ fs'[result'.file].tables[result'.table] = fs[result'.file].tables[result'.table]]_vars

\* An update for id 9 succeeded on a table that has rows, none with that id.
C14_Witness ==
    /\ result.op = "edit_record" /\ result.ok
    /\ result.msg = "Record updated successfully!"
    /\ result.rowid = 9
    /\ fs[result.file].tables[result.table] # <<>>
    /\ \A row \in Range(fs[result.file].tables[result.table]) : row.id # 9

\* C15 as claimed: every insert or update the editor reports as done, on a
\* file with a table named admin_actions, appends one row to that table with
\* the actor, the action type, the target file and the target table.
C15_EveryMutationIsAudited ==
    [][(/\ result'.op \in {"add_record", "edit_record"}
        /\ result'.ok /\ result'.msg # ""
        /\ HasTable(fs[result'.file], "admin_actions"))
       => LET before == fs[result'.file].tables["admin_actions"]
              after  == fs'[result'.file].tables["admin_actions"]
          IN /\ Len(after) = Len(before) + 1
             /\ SubSeq(after, 1, Len(before)) = before
             /\ after[Len(after)].admin_user_id = AdminUserId
             /\ after[Len(after)].action_type =
                    (IF result'.op = "add_record" THEN "INSERT" ELSE "UPDATE")
             /\ after[Len(after)].target_db = result'.file[2]
             /\ after[Len(after)].target_table = result'.table]_vars

\* The admin_actions table of the file lacks a column the audit row names.
AuditColumnsDiffer(c) ==
    /\ HasTable(c, "admin_actions")
    /\ \E k \in {"target_db", "target_table", "action_details"} :
          k \notin DOMAIN Columns(c, "admin_actions")

\* C16: when the audit row cannot be written, an insert or update that the
\* table accepts is committed as it is and reported as done.
C16_AuditFailureKeepsMutation ==
    [][(/\ result'.op \in {"add_record", "edit_record"}
        /\ Exists(fs, result'.file)
        /\ AuditColumnsDiffer(fs[result'.file]))
       => LET r == result'
              c == fs[r.file]
              fields == [k \in FilledFields(r) |-> r.form[k]]
              updates == [k \in PostedFields(r) |-> r.form[k]]
          IN /\ (r.op = "add_record" /\ FilledFields(r) # {}
                    /\ ~SqlInsert(c, r.table, fields).raised)
                => /\ r.ok /\ r.msg = "Record added successfully!"
                   /\ fs' = [fs EXCEPT ![r.file] = SqlInsert(c, r.table, fields).c]
             /\ (r.op = "edit_record" /\ PostedFields(r) # {}
                    /\ ~SqlUpdate(c, r.table, updates, r.rowid).raised)
                => /\ r.ok /\ r.msg = "Record updated successfully!"
                   /\ fs' = [fs EXCEPT ![r.file] = SqlUpdate(c, r.table, updates, r.rowid).c]]_vars

\* A record was added to the users table of the seeder's file: the row is
\* there, the audit row was refused and dropped, and the add is reported.
C16_Witness ==
    /\ result.op = "add_record" /\ result.ok /\ result.caught = 1
    /\ result.table = "users"
    /\ AuditColumnsDiffer(fs[result.file])
    /\ fs[result.file].tables["admin_actions"] = <<>>
    /\ \E row \in Range(fs[result.file].tables["users"]) :
          row.id = result.rowid /\ row.username = "x"

CanonicalUsers(f) == f[Central].tables["users"]

WithEmail(rows, email) == {i \in DOMAIN rows : rows[i].email = email}

\* C18 as claimed: a run of the seeder that follows a completed run, with
\* nothing done in between, leaves every file, table, column and row as the
\* first run left it.
C18_SecondRunChangesNothing ==
    [][(result.op = "seed" /\ result.ok /\ result'.op = "seed") => fs' = fs]_vars

\* C19 as claimed: after a completed run, every user of a legacy
\* admin_users.db at either historical location has exactly one row with
\* that email in the canonical users table, whether the canonical file
\* existed before the run or not.
C19_LegacyUsersReachCanonical ==
    [][(result'.op = "seed" /\ result'.ok)
       => \A loc \in LegacyLocations :
             (Exists(fs, loc) /\ HasTable(fs[loc], "users"))
             => \A u \in Range(fs[loc].tables["users"]) :
                   Cardinality(WithEmail(CanonicalUsers(fs'), u.email)) = 1]_vars

BothDone ==
    /\ requests.active
    /\ \A i \in DOMAIN requests.thread : requests.thread[i].pc = "done"

\* C21 as claimed: when two requests for different files have both been
\* served at the same time, the storage and the cache are what serving the
\* two one after the other, in one of the two orders, would have left.
C21_DifferentFilesDoNotInteract ==
    (BothDone /\ TargetOf(requests.thread[1].req) # TargetOf(requests.thread[2].req))
        => LET r1 == requests.thread[1].req
               r2 == requests.thread[2].req
           IN [fs |-> fs, discovered |-> discovered]
                 \in {ServedAlone(r2, ServedAlone(r1, requests.start)),
                      ServedAlone(r1, ServedAlone(r2, requests.start))}

\* C29 as claimed: of two uploads of the same file name served at the same
\* time at most one reports success, and the file of an upload that reported
\* success is in storage with the bytes that upload supplied.
C29_OneUploadWins ==
    (/\ BothDone
     /\ \A i \in {1, 2} : requests.thread[i].req.kind = "upload"
     /\ TargetOf(requests.thread[1].req) = TargetOf(requests.thread[2].req))
        => /\ ~(requests.thread[1].ok /\ requests.thread[2].ok)
           /\ \A i \in {1, 2} :
                 requests.thread[i].ok
                    => /\ Exists(fs, TargetOf(requests.thread[i].req))
                       /\ fs[TargetOf(requests.thread[i].req)]
                             = requests.thread[i].req.file.content

\* The number of rows of the listed table that come before row i when the
\* table is ordered by id descending, a NULL id counting as 0.
RankOf(rows, i) ==
    Cardinality({j \in DOMAIN rows :
                    \/ coalesce_id(rows[j]) > coalesce_id(rows[i])
                    \/ coalesce_id(rows[j]) = coalesce_id(rows[i]) /\ j < i})

ListedRows == fs[result.file].tables[result.table]

Pages(n) == (n + per_page - 1) \div per_page

PageOf(p) == edit_database_table(fs, result.file[2], result.table, p).data

\* The rows shown by pages 1..p, one page after the other.
RECURSIVE Shown(_)
Shown(p) == IF p = 0 THEN <<>> ELSE Shown(p - 1) \o PageOf(p)

\* C22: a listing of page p >= 1 shows the rows at positions (p-1)*25 ..
\* p*25-1 of the table ordered by id descending (NULL as 0) and reports the
\* number of rows of the table as the total; over pages 1..ceil(n/25) every
\* row is shown exactly once, and the page after the last shows no row.
C22_PagesPartitionTheTable ==
    (result.op = "edit_table" /\ result.ok)
        => LET rows == ListedRows
               n == Len(rows)
               first == (result.page - 1) * 25
               rank == [i \in DOMAIN rows |-> RankOf(rows, i)]
               shown == Shown(Pages(n))
           IN /\ result.total = n
              /\ Len(result.data) = IF n - first >= 25 THEN 25
                                    ELSE IF n > first THEN n - first ELSE 0
              /\ \A k \in DOMAIN result.data :
                    \E i \in DOMAIN rows :
                        /\ rank[i] = first + k - 1
                        /\ result.data[k] = rows[i]
              /\ \A i \in DOMAIN rows :
                    Cardinality({k \in DOMAIN shown : shown[k] = rows[i]}) = 1
              /\ PageOf(Pages(n) + 1) = <<>>

\* A listing of the last, partly filled page of a table of more than one
\* page, with a row of NULL id in the table.
C22_Witness ==
    /\ result.op = "edit_table"
    /\ result.ok
    /\ result.page = 2
    /\ Len(result.data) \in 1..24
    /\ \E i \in DOMAIN ListedRows : "id" \notin DOMAIN ListedRows[i]

\* C23 as claimed: whenever admin_users.db is in the storage directory it
\* has a users table.
C23_CentralFileHasUsersTable ==
    Exists(fs, InStorage(AdminUsersDb)) => HasTable(fs[InStorage(AdminUsersDb)], "users")

\* The users of file c with the given id.
UsersWithId(c, id) ==
    IF HasTable(c, "users") THEN {u \in Range(c.tables["users"]) : u.id = id} ELSE {}

\* C24 as claimed: a row of user_bookmarks is attributed to the centralized
\* user who has the email of the bookmark's owner in the source file.
C24_BookmarksFollowTheirOwner ==
    (Exists(fs, Central) /\ HasTable(fs[Central], "user_bookmarks"))
        => \A bm \in Range(fs[Central].tables["user_bookmarks"]) :
              Exists(fs, bm.source_database)
                => \A owner \in UsersWithId(fs[bm.source_database], bm.user_id) :
                      \A u \in UsersWithId(fs[Central], bm.user_id) : u.email = owner.email

\* C25 as claimed: the file of an upload that reported success is listed by
\* discover_databases() under the category the upload named.
C25_AcceptedUploadIsListedInItsCategory ==
    (result.op = "upload" /\ result.ok)
        => result.file \in discover_databases(fs)[result.cat]

\* C26 as claimed: an update for an id that no row of the table has leaves
\* the admin_actions table of the file as it was.
C26_NoOpUpdateIsNotLogged ==
    [][(/\ result'.op = "edit_record"
        /\ Exists(fs, result'.file)
        /\ HasTable(fs[result'.file], result'.table)
        /\ HasTable(fs[result'.file], "admin_actions")
        /\ \A row \in Range(fs[result'.file].tables[result'.table]) : row.id # result'.rowid)
       => fs'[result'.file].tables["admin_actions"] = fs[result'.file].tables["admin_actions"]]_vars

\* C27 as claimed: a file that a run of the seeder created has every required
\* table of each category under which discover_databases() lists it.
C27_SeededFilesFitTheirCategories ==
    [][result'.op = "seed"
       => \A loc \in DOMAIN fs' \ DOMAIN fs :
             \A cat \in Categories :
                 loc \in discover_databases(fs')[cat]
                    => \A t \in RequiredTables(cat) : HasTable(fs'[loc], t)]_vars

\* C28 as claimed: discover_databases() lists every file of the storage
\* directory under at most one category, and a bulk backup that succeeded
\* holds one copy of each file and reports the number of files copied.
C28_EachFileInOneCategory ==
    /\ \A loc \in StorageFiles(fs) :
          Cardinality({cat \in Categories : loc \in discover_databases(fs)[cat]}) <= 1
    /\ (result.op = "backup" /\ result.ok)
          => LET copies == {k \in DOMAIN backups : k[1] = result.backup_dir}
             IN /\ \A k1, k2 \in copies : k1[3] = k2[3] => k1 = k2
                /\ result.count = Cardinality({k[3] : k \in copies})

\* The content databases hold their seed rows and admin_users.db holds the
\* administrator.
Seeded(f) ==
    /\ Exists(f, Central) /\ HasTable(f[Central], "users") /\ AdminEmail \in Emails(f[Central])
    /\ \A x \in {<<ThirdYearDb, "qbank", 10, "Anatomy">>,
                 <<AnatomyMcqDb, "mcq_questions", 5, "Anatomy">>,
                 <<GeneralMcqDb, "general_questions", 3, "General Medicine">>} :
          /\ Exists(f, InStorage(x[1]))
          /\ HasTable(f[InStorage(x[1])], x[2])
          /\ f[InStorage(x[1])].tables[x[2]] = SeedRows(x[3], x[4])

\* C30 as claimed: a run of the seeder that reaches its end, whatever an
\* interrupted run left on the disk before it, leaves the content databases
\* with their seed rows and admin_users.db with the administrator.
C30_RerunRepairsInterruptedSeed ==
    [][(result'.op = "seed" /\ result'.msg = "completed") => Seeded(fs')]_vars

\* The last entry of StartupStages is the disk a whole run leaves.
StagesEndWhereTheRunEnds ==
    LET r == initialize_databases_on_startup(fs)
    IN StartupStages(fs)[Len(StartupStages(fs))] = r.fs /\ Len(StartupStages(fs)) <= MaxWrites

====
